---- MODULE Spec2Model ----
(***************************************************************************)
(* Model of the Nifty DMA breadth repository:                              *)
(*   src/generate_close_prices.py  read_symbols, extract_close,            *)
(*                                 download_close_prices, main             *)
(*   src/breadth_dma.py            main                                    *)
(* Strings are TLA+ strings handled as character sequences, so that the    *)
(* str.replace / str.strip conversions of the code are computed.  A cell   *)
(* of a price table is <<>> (missing, pandas NaN) or <<p>> (the price p).  *)
(***************************************************************************)
EXTENDS Integers, Sequences, FiniteSets, TLC

VARIABLES
    symbols_csv,   \* the raw entries of the Symbol column of --symbols_csv
    chunk_size,    \* --chunk_size
    max_retries,   \* --max_retries
    pause,         \* --pause
    layout,        \* the response shape of the quote provider
    pc,            \* position of generate_close_prices.main
    yf_symbols,    \* read_symbols(...)
    i,             \* 0-based start of the current chunk (the for loop variable)
    attempt,       \* the retry loop variable
    all_close,     \* the list all_close of per-batch close tables
    close_df,      \* the matrix download_close_prices returns
    trace,         \* fetch calls, sleeps and log lines, in program order
    got,           \* per finished chunk: how it ended, the frame returned, `close`
    csv_out,       \* what main wrote to close.csv (<<>>: nothing written)
    bpc,           \* position of breadth_dma.main
    df,            \* breadth_dma: the price matrix after line 25 / line 28
    fast,          \* --fast
    slow,          \* --slow
    min_coverage,  \* --min_coverage as a fraction <<numerator, denominator>>
    full_df,       \* breadth_dma: the matrix before the coverage filter
    dma_fast,      \* breadth_dma: dma_fast
    dma_slow,      \* breadth_dma: dma_slow
    out,           \* breadth_dma: the breadth table `out`
    saved          \* breadth_dma: the "Saved:" lines were printed

vars == <<symbols_csv, chunk_size, max_retries, pause, layout, pc, yf_symbols, i,
          attempt, all_close, close_df, trace, got, csv_out,
          bpc, df, fast, slow, min_coverage, full_df, dma_fast, dma_slow, out,
          saved>>

dlVars == <<symbols_csv, chunk_size, max_retries, pause, layout, pc, yf_symbols, i,
            attempt, all_close, close_df, trace, got, csv_out>>

brVars == <<bpc, df, fast, slow, min_coverage, full_df, dma_fast, dma_slow, out,
          saved>>

----------------------------------------------------------------------------
(* Bounds of the model *)

MaxSyms == 3        \* raw symbol entries in the CSV (retry specification)
MaxRetries == 2     \* largest --max_retries (retry specification)
DataSyms == 2       \* raw symbol entries in the CSV (data specification)
MaxRows == 3        \* rows of the price matrix read by breadth_dma

----------------------------------------------------------------------------
(* Python str helpers *)

\* The characters of the model in code point order (for sorted()).
Alphabet == " .:ABCEGIKLNRST_an"

Code(c) == CHOOSE k \in 1..Len(Alphabet) : SubSeq(Alphabet, k, k) = c

RECURSIVE StrLess(_, _)
StrLess(a, b) ==
    IF Len(a) = 0 THEN Len(b) > 0
    ELSE IF Len(b) = 0 THEN FALSE
    ELSE IF Head(a) = Head(b) THEN StrLess(Tail(a), Tail(b))
    ELSE Code(Head(a)) < Code(Head(b))

StartsWith(s, p) == Len(s) >= Len(p) /\ SubSeq(s, 1, Len(p)) = p

\* str.replace(old, new): left to right, non-overlapping, one pass.
RECURSIVE StrReplace(_, _, _)
StrReplace(s, old, new) ==
    IF Len(s) = 0 THEN s
    ELSE IF StartsWith(s, old)
         THEN new \o StrReplace(SubSeq(s, Len(old) + 1, Len(s)), old, new)
         ELSE Head(s) \o StrReplace(Tail(s), old, new)

RECURSIVE LStrip(_)
LStrip(s) == IF Len(s) > 0 /\ Head(s) = " " THEN LStrip(Tail(s)) ELSE s

RECURSIVE RStrip(_)
RStrip(s) ==
    IF Len(s) > 0 /\ SubSeq(s, Len(s), Len(s)) = " "
    THEN RStrip(SubSeq(s, 1, Len(s) - 1)) ELSE s

StrStrip(s) == RStrip(LStrip(s))

\* sorted(S) for a set of strings.
RECURSIVE SortedStrs(_)
SortedStrs(S) ==
    IF S = {} THEN <<>>
    ELSE LET m == CHOOSE x \in S : \A y \in S \ {x} : StrLess(x, y)
         IN <<m>> \o SortedStrs(S \ {m})

----------------------------------------------------------------------------
(* generate_close_prices.read_symbols *)

CleanSymbol(s) ==
    StrStrip(StrReplace(StrReplace(StrStrip(s), "NSE:", ""), ".NS", ""))

read_symbols(raw) ==
    SortedStrs({ CleanSymbol(s) \o ".NS" :
                 s \in { r \in raw : CleanSymbol(r) # "" /\ CleanSymbol(r) # "nan" } })

\* Raw entries a symbols CSV can hold.
RawUniverse == {"NSE:A", " B.NS ", "A.N.NSS", "nan"}

\* Further raw entries, for runs over more chunks.
RetryUniverse == RawUniverse \cup {"C", "NSE:B.NS"}

RawLists(U, n) == { S \in SUBSET U : Cardinality(S) <= n }

----------------------------------------------------------------------------
(* Tables.  A cell is NaN or <<p>>.  A table has an index (a sequence of   *)
(* dates) and a sequence of columns; a column carries its label and a      *)
(* function from the dates of the index to cells.                          *)

NaN == <<>>

IsNaN(c) == c = <<>>

SeqRange(s) == { s[k] : k \in 1..Len(s) }

EmptyTable == [index |-> <<>>, cols |-> <<>>]

\* DataFrame.empty
IsEmpty(t) == ~(Len(t.index) > 0 /\ Len(t.cols) > 0)

Labels(t) == [k \in 1..Len(t.cols) |-> t.cols[k].label]

\* Trading days the quote provider can report for the lookback period.
Dates == {1, 2}

RowChoices == {<<>>, <<1>>, <<2>>, <<1, 2>>}

CloseCells == {NaN, <<1>>}

OpenCell == <<1>>

\* The frame yf.download returns for `chunk`: `shape` "flat" is the single
\* symbol shape (plain field names), "column" the layered shape with the
\* field as outer key, "ticker" the layered shape with the symbol as outer
\* key.  `fields` are the price fields present, `idx` the dates returned and
\* cl[k][d] the Close cell of the k-th symbol on date d.
MkFrame(chunk, shape, fields, idx, cl) ==
    LET n == Len(chunk)
        nf == Len(fields)
        cell(k, f) == [d \in SeqRange(idx) |->
                          IF fields[f] = "Close" THEN cl[k][d] ELSE OpenCell]
    IN  [none |-> FALSE,
         multi |-> shape # "flat",
         index |-> idx,
         cols |->
            IF shape = "flat"
            THEN [f \in 1..nf |-> [key |-> <<fields[f]>>, val |-> cell(1, f)]]
            ELSE IF shape = "column"
            THEN [j \in 1..(nf * n) |->
                    LET f == ((j - 1) \div n) + 1
                        k == ((j - 1) % n) + 1
                    IN [key |-> <<fields[f], chunk[k]>>, val |-> cell(k, f)]]
            ELSE [j \in 1..(nf * n) |->
                    LET k == ((j - 1) \div nf) + 1
                        f == ((j - 1) % nf) + 1
                    IN [key |-> <<chunk[k], fields[f]>>, val |-> cell(k, f)]]]

NoneFrame == [none |-> TRUE, multi |-> FALSE, index |-> <<>>, cols |-> <<>>]

\* The shape the provider answers a chunk with: the flat shape exists for a
\* single symbol only.
ShapeFor(chunk, shape) ==
    IF shape = "flat" /\ Len(chunk) # 1 THEN "column" ELSE shape

\* Every answer of the provider to a fetch of `chunk` that does not raise.
Frames(chunk, shape) ==
    { MkFrame(chunk, ShapeFor(chunk, shape), <<"Close", "Open">>, idx, cl) :
        idx \in RowChoices,
        cl \in [1..Len(chunk) -> [Dates -> CloseCells]] }
    \cup { MkFrame(chunk, ShapeFor(chunk, shape), <<"Open">>, <<1, 2>>,
                   [k \in 1..Len(chunk) |-> [d \in Dates |-> NaN]]),
           NoneFrame }

\* The answer in which every symbol of the chunk has a price on every date.
FullFrame(chunk, shape) ==
    MkFrame(chunk, ShapeFor(chunk, shape), <<"Close", "Open">>, <<1, 2>>,
            [k \in 1..Len(chunk) |-> [d \in Dates |-> <<1>>]])

----------------------------------------------------------------------------
(* generate_close_prices.extract_close *)

\* `how` names the branch of extract_close: "level0" is downloaded["Close"]
\* (the columns whose outer key is Close, labelled by their inner key),
\* "level1" the columns c with len(c) == 2 and c[1] == "Close", labelled c[0],
\* "flat" is downloaded[["Close"]] relabelled SINGLE_TICKER.
IsCloseCol(c, how) ==
    IF how = "level1" THEN Len(c.key) = 2 /\ c.key[2] = "Close"
    ELSE c.key[1] = "Close"

CloseLabel(c, how) ==
    IF how = "level0" THEN c.key[2]
    ELSE IF how = "level1" THEN c.key[1]
    ELSE "SINGLE_TICKER"

RECURSIVE SelectCols(_, _)
SelectCols(cols, how) ==
    IF Len(cols) = 0 THEN <<>>
    ELSE (IF IsCloseCol(Head(cols), how)
          THEN <<[label |-> CloseLabel(Head(cols), how), val |-> Head(cols).val]>>
          ELSE <<>>) \o SelectCols(Tail(cols), how)

extract_close(downloaded) ==
    IF downloaded.none \/ Len(downloaded.index) = 0 \/ Len(downloaded.cols) = 0
    THEN EmptyTable
    ELSE IF downloaded.multi
    THEN IF \E k \in 1..Len(downloaded.cols) : downloaded.cols[k].key[1] = "Close"
         THEN [index |-> downloaded.index,
               cols |-> SelectCols(downloaded.cols, "level0")]
         ELSE IF SelectCols(downloaded.cols, "level1") = <<>>
              THEN EmptyTable
              ELSE [index |-> downloaded.index,
                    cols |-> SelectCols(downloaded.cols, "level1")]
    ELSE IF \A k \in 1..Len(downloaded.cols) : downloaded.cols[k].key[1] # "Close"
         THEN EmptyTable
         ELSE [index |-> downloaded.index,
               cols |-> SelectCols(downloaded.cols, "flat")]

----------------------------------------------------------------------------
(* generate_close_prices.download_close_prices, lines 84-94 *)

\* The dates of `b` that `a` does not hold, in b's order.
RECURSIVE NewDates(_, _)
NewDates(a, b) ==
    IF Len(b) = 0 THEN <<>>
    ELSE (IF Head(b) \in SeqRange(a) THEN <<>> ELSE <<Head(b)>>)
         \o NewDates(a, Tail(b))

\* The index of pd.concat(tables, axis=1): the outer union of the indexes.
RECURSIVE UnionIndex(_)
UnionIndex(tables) ==
    IF Len(tables) = 0 THEN <<>>
    ELSE LET rest == UnionIndex(SubSeq(tables, 1, Len(tables) - 1))
         IN rest \o NewDates(rest, tables[Len(tables)].index)

\* A column reindexed to the dates `ds`: missing where it has no row.
Reindexed(col, ds) ==
    [label |-> col.label,
     val |-> [d \in ds |-> IF d \in DOMAIN col.val THEN col.val[d] ELSE NaN]]

RECURSIVE ConcatCols(_, _)
ConcatCols(tables, ds) ==
    IF Len(tables) = 0 THEN <<>>
    ELSE [k \in 1..Len(Head(tables).cols) |-> Reindexed(Head(tables).cols[k], ds)]
         \o ConcatCols(Tail(tables), ds)

\* pd.concat(all_close, axis=1)
Concat(tables) ==
    LET idx == UnionIndex(tables)
    IN [index |-> idx, cols |-> ConcatCols(tables, SeqRange(idx))]

AllNaN(col) == \A d \in DOMAIN col.val : IsNaN(col.val[d])

\* close_df.dropna(axis=1, how="all")
RECURSIVE DropAllNaNCols(_)
DropAllNaNCols(cols) ==
    IF Len(cols) = 0 THEN <<>>
    ELSE (IF AllNaN(Head(cols)) THEN <<>> ELSE <<Head(cols)>>)
         \o DropAllNaNCols(Tail(cols))

\* DropAllNaN that drops nothing.
KeepAllNaN(t) == t

DropAllNaN(t) == [index |-> t.index, cols |-> DropAllNaNCols(t.cols)]

\* close_df.loc[:, ~close_df.columns.duplicated()]: the first column of each
\* label is kept.
RECURSIVE FirstOfLabel(_, _)
FirstOfLabel(cols, seen) ==
    IF Len(cols) = 0 THEN <<>>
    ELSE (IF Head(cols).label \in seen THEN <<>> ELSE <<Head(cols)>>)
         \o FirstOfLabel(Tail(cols), seen \cup {Head(cols).label})

DropDuplicated(t) == [index |-> t.index, cols |-> FirstOfLabel(t.cols, {})]

RECURSIVE SortedInts(_)
SortedInts(S) ==
    IF S = {} THEN <<>>
    ELSE LET m == CHOOSE x \in S : \A y \in S : x <= y
         IN <<m>> \o SortedInts(S \ {m})

\* close_df.sort_index()
SortIndex(t) == [index |-> SortedInts(SeqRange(t.index)), cols |-> t.cols]

\* close_df.columns = [str(c).replace(".NS", "") for c in close_df.columns]
CleanColumns(t) ==
    [index |-> t.index,
     cols |-> [k \in 1..Len(t.cols) |->
                 [label |-> StrReplace(t.cols[k].label, ".NS", ""),
                  val |-> t.cols[k].val]]]

Assembled(tables) ==
    IF Len(tables) = 0 THEN EmptyTable
    ELSE CleanColumns(SortIndex(DropDuplicated(DropAllNaN(Concat(tables)))))

----------------------------------------------------------------------------
(* generate_close_prices: main and download_close_prices as a state machine.*)
(* A step runs from one blocking yf.download call to the next.  pc: "start" *)
(* (main before read_symbols), "fetch" (about to call yf.download for the   *)
(* current chunk and attempt), "assemble" (the chunk loop is over, line 84  *)
(* is next), "fatal" (main raised RuntimeError), "saved" (close.csv         *)
(* written).                                                                *)

Min(a, b) == IF a <= b THEN a ELSE b

\* yf_symbols[i:i + chunk_size]
Chunk(syms, start, size) == SubSeq(syms, start + 1, Min(start + size, Len(syms)))

\* i // chunk_size + 1
ChunkNo(start, size) == (start \div size) + 1

\* An entry of the trace: a fetch call (with the tickers asked for), a sleep
\* of d time units, or a [WARN] / [ERROR] line, of chunk b in attempt a.
Ev(kind, b, a, d) == [ev |-> kind, b |-> b, a |-> a, d |-> d, t |-> <<>>]

FetchEv(b, a, tickers) == [ev |-> "fetch", b |-> b, a |-> a, d |-> 0, t |-> tickers]

\* Backoff with a wait that does not grow with the attempt.
BackoffFlat(p, a) == p * 2

\* wait = pause * (attempt + 2)
Backoff(p, a) == p * (a + 2)

Pauses == {0, 1}

RetryChoices == {0, 1}

Layouts == {"flat", "column", "ticker"}

BreadthIdle ==
    /\ bpc = "idle"
    /\ df = EmptyTable
    /\ full_df = EmptyTable
    /\ fast = 1
    /\ slow = 1
    /\ min_coverage = <<0, 1>>
    /\ dma_fast = EmptyTable
    /\ dma_slow = EmptyTable
    /\ out = <<>>
    /\ saved = FALSE

DownloadStart ==
    /\ pc = "start"
    /\ yf_symbols = <<>>
    /\ i = 0
    /\ attempt = 0
    /\ all_close = <<>>
    /\ close_df = EmptyTable
    /\ trace = <<>>
    /\ got = <<>>
    /\ csv_out = <<>>

Init ==
    /\ symbols_csv \in RawLists(RawUniverse, DataSyms)
    /\ chunk_size \in 1..DataSyms
    /\ max_retries \in RetryChoices
    /\ pause = 1
    /\ layout \in Layouts
    /\ DownloadStart
    /\ BreadthIdle

InitRetry ==
    /\ symbols_csv \in RawLists(RetryUniverse, MaxSyms)
    /\ chunk_size \in 1..MaxSyms
    /\ max_retries \in 0..MaxRetries
    /\ pause \in Pauses
    /\ layout = "column"
    /\ DownloadStart
    /\ BreadthIdle

\* main, lines 111-121, and download_close_prices up to its first fetch.
Start ==
    /\ pc = "start"
    /\ yf_symbols' = read_symbols(symbols_csv)
    /\ all_close' = <<>>
    /\ i' = 0
    /\ attempt' = 0
    /\ pc' = IF Len(read_symbols(symbols_csv)) > 0 THEN "fetch" ELSE "assemble"
    /\ UNCHANGED <<symbols_csv, chunk_size, max_retries, pause, layout,
                   close_df, trace, got, csv_out>>
    /\ UNCHANGED brVars

\* Line 82 and the step of the chunk loop, line 57: the position after the
\* retry loop of the chunk starting at `start` has ended.
NextStart(start) == start + chunk_size

PcAfterBatch(start) ==
    IF NextStart(start) < Len(yf_symbols) THEN "fetch" ELSE "assemble"

PauseEv(start) == Ev("sleep", ChunkNo(start, chunk_size), -1, pause)

\* FetchRaises with the exhaustion test one attempt late.
FetchRaisesOneMore ==
    /\ pc = "fetch"
    /\ LET b == ChunkNo(i, chunk_size)
           call == FetchEv(b, attempt, Chunk(yf_symbols, i, chunk_size))
       IN IF attempt = max_retries + 1
          THEN /\ trace' = trace \o <<call, Ev("error", b, attempt, 0), PauseEv(i)>>
               /\ got' = Append(got, [b |-> b, ok |-> FALSE, frame |-> NoneFrame,
                                     close |-> EmptyTable])
               /\ pc' = PcAfterBatch(i)
               /\ i' = NextStart(i)
               /\ attempt' = 0
          ELSE /\ trace' = trace \o <<call, Ev("warn", b, attempt, 0),
                                     Ev("sleep", b, attempt, Backoff(pause, attempt))>>
               /\ got' = got
               /\ pc' = "fetch"
               /\ i' = i
               /\ attempt' = attempt + 1
    /\ UNCHANGED <<symbols_csv, chunk_size, max_retries, pause, layout,
                   yf_symbols, all_close, close_df, csv_out>>
    /\ UNCHANGED brVars

\* Lines 62-69 raise; the except clause, lines 74-80; after the last attempt
\* the retry loop ends and line 82 sleeps.
FetchRaises ==
    /\ pc = "fetch"
    /\ LET b == ChunkNo(i, chunk_size)
           call == FetchEv(b, attempt, Chunk(yf_symbols, i, chunk_size))
       IN IF attempt = max_retries
          THEN /\ trace' = trace \o <<call, Ev("error", b, attempt, 0), PauseEv(i)>>
               /\ got' = Append(got, [b |-> b, ok |-> FALSE, frame |-> NoneFrame,
                                     close |-> EmptyTable])
               /\ pc' = PcAfterBatch(i)
               /\ i' = NextStart(i)
               /\ attempt' = 0
          ELSE /\ trace' = trace \o <<call, Ev("warn", b, attempt, 0),
                                     Ev("sleep", b, attempt, Backoff(pause, attempt))>>
               /\ got' = got
               /\ pc' = "fetch"
               /\ i' = i
               /\ attempt' = attempt + 1
    /\ UNCHANGED <<symbols_csv, chunk_size, max_retries, pause, layout,
                   yf_symbols, all_close, close_df, csv_out>>
    /\ UNCHANGED brVars

\* FetchReturnsWith that keeps the close table of a first attempt only.
FetchReturnsFirstTryOnly(downloaded) ==
    /\ pc = "fetch"
    /\ LET b == ChunkNo(i, chunk_size)
           close == extract_close(downloaded)
       IN /\ all_close' = IF ~IsEmpty(close) /\ attempt = 0
                          THEN Append(all_close, close) ELSE all_close
          /\ trace' = trace \o <<FetchEv(b, attempt, Chunk(yf_symbols, i, chunk_size)),
                                 PauseEv(i)>>
          /\ got' = Append(got, [b |-> b, ok |-> TRUE, frame |-> downloaded,
                                 close |-> close])
    /\ pc' = PcAfterBatch(i)
    /\ i' = NextStart(i)
    /\ attempt' = 0
    /\ UNCHANGED <<symbols_csv, chunk_size, max_retries, pause, layout,
                   yf_symbols, close_df, csv_out>>
    /\ UNCHANGED brVars

\* Lines 62-73: yf.download returns `downloaded`; break; line 82 sleeps.
FetchReturnsWith(downloaded) ==
    /\ pc = "fetch"
    /\ LET b == ChunkNo(i, chunk_size)
           close == extract_close(downloaded)
       IN /\ all_close' = IF ~IsEmpty(close) THEN Append(all_close, close)
                          ELSE all_close
          /\ trace' = trace \o <<FetchEv(b, attempt, Chunk(yf_symbols, i, chunk_size)),
                                     PauseEv(i)>>
          /\ got' = Append(got, [b |-> b, ok |-> TRUE, frame |-> downloaded,
                                     close |-> close])
    /\ pc' = PcAfterBatch(i)
    /\ i' = NextStart(i)
    /\ attempt' = 0
    /\ UNCHANGED <<symbols_csv, chunk_size, max_retries, pause, layout,
                   yf_symbols, close_df, csv_out>>
    /\ UNCHANGED brVars

FetchReturns ==
    \E downloaded \in Frames(Chunk(yf_symbols, i, chunk_size), layout) :
        FetchReturnsWith(downloaded)

FetchReturnsFull ==
    FetchReturnsWith(FullFrame(Chunk(yf_symbols, i, chunk_size), layout))

\* Lines 84-94 return an empty matrix to main, lines 123-124 raise.
MainFatal ==
    /\ pc = "assemble"
    /\ IsEmpty(Assembled(all_close))
    /\ close_df' = Assembled(all_close)
    /\ pc' = "fatal"
    /\ UNCHANGED <<symbols_csv, chunk_size, max_retries, pause, layout,
                   yf_symbols, i, attempt, all_close, trace, got, csv_out>>
    /\ UNCHANGED brVars

\* Lines 84-94 return the matrix to main, lines 126-129 write close.csv.
MainWrite ==
    /\ pc = "assemble"
    /\ ~IsEmpty(Assembled(all_close))
    /\ close_df' = Assembled(all_close)
    /\ csv_out' = <<Assembled(all_close)>>
    /\ pc' = "saved"
    /\ UNCHANGED <<symbols_csv, chunk_size, max_retries, pause, layout,
                   yf_symbols, i, attempt, all_close, trace, got>>
    /\ UNCHANGED brVars

Next ==
    \/ Start
    \/ FetchRaises
    \/ FetchReturns
    \/ MainFatal
    \/ MainWrite

Spec == Init /\ [][Next]_vars

NextRetry ==
    \/ Start
    \/ FetchRaises
    \/ FetchReturnsFull
    \/ MainFatal
    \/ MainWrite

SpecRetry == InitRetry /\ [][NextRetry]_vars

----------------------------------------------------------------------------
(* breadth_dma.main from line 27 on.  df is the price matrix after lines    *)
(* 19-25: the index holds the dates 1..n in ascending order, each symbol    *)
(* labels one column, a cell is NaN or a price.  A fraction a/b is the      *)
(* pair <<a, b>>.                                                           *)

BreadthSyms == <<"A", "B">>

Prices == {NaN, <<1>>, <<2>>}

Thresholds == {<<1, 2>>, <<4, 5>>}

FastWindows == {1, 2}

SlowWindows == {1, MaxRows, MaxRows + 1}

Matrices ==
    UNION { UNION { { [index |-> [r \in 1..n |-> r],
                       cols |-> [k \in 1..c |->
                                   [label |-> BreadthSyms[k], val |-> v[k]]]] :
                      v \in [1..c -> [1..n -> Prices]] } :
                    c \in 0..Len(BreadthSyms) } :
            n \in 0..MaxRows }

\* df.notna().sum() of one column
NotNaCount(col) == Cardinality({ d \in DOMAIN col.val : ~IsNaN(col.val[d]) })

\* Covered with a strict comparison.
CoveredStrict(col, n, thr) == n > 0 /\ NotNaCount(col) * thr[2] > thr[1] * n

\* coverage >= min_coverage for one column of a matrix of n rows; the mean
\* over no rows is NaN, which compares False.
Covered(col, n, thr) == n > 0 /\ NotNaCount(col) * thr[2] >= thr[1] * n

RECURSIVE CoveredCols(_, _, _)
CoveredCols(cols, n, thr) ==
    IF Len(cols) = 0 THEN <<>>
    ELSE (IF Covered(Head(cols), n, thr) THEN <<Head(cols)>> ELSE <<>>)
         \o CoveredCols(Tail(cols), n, thr)

\* Lines 27-28
CoverageFiltered(t, thr) ==
    [index |-> t.index, cols |-> CoveredCols(t.cols, Len(t.index), thr)]

RECURSIVE WindowSum(_, _, _, _)
WindowSum(col, idx, r, w) ==
    IF w = 0 THEN 0 ELSE col.val[idx[r]][1] + WindowSum(col, idx, r - 1, w - 1)

\* RollingCell with min_periods=1: the mean of a partial window.
RollingCellPartial(col, idx, r, w) ==
    LET lo == IF r - w + 1 < 1 THEN 1 ELSE r - w + 1
    IN IF \A k \in lo..r : ~IsNaN(col.val[idx[k]])
       THEN <<WindowSum(col, idx, r, r - lo + 1), r - lo + 1>>
       ELSE NaN

\* One cell of df.rolling(w, min_periods=w).mean(): the mean sum/w as the
\* fraction <<sum, w>>, NaN unless the w rows ending at row r all hold a price.
RollingCell(col, idx, r, w) ==
    IF r >= w /\ \A k \in (r - w + 1)..r : ~IsNaN(col.val[idx[k]])
    THEN <<WindowSum(col, idx, r, w), w>>
    ELSE NaN

\* Lines 30-31
Rolling(t, w) ==
    [index |-> t.index,
     cols |-> [k \in 1..Len(t.cols) |->
                 [label |-> t.cols[k].label,
                  val |-> [d \in SeqRange(t.index) |->
                             RollingCell(t.cols[k], t.index, d, w)]]]]

\* One cell of (df > dma).where(dma.notna())
AboveCell(price, mean) ==
    IF IsNaN(mean) THEN NaN
    ELSE IF IsNaN(price) THEN <<FALSE>>
    ELSE <<price[1] * mean[2] > mean[1]>>

\* Lines 33-34
Above(t, dma) ==
    [index |-> t.index,
     cols |-> [k \in 1..Len(t.cols) |->
                 [label |-> t.cols[k].label,
                  val |-> [d \in SeqRange(t.index) |->
                             AboveCell(t.cols[k].val[d], dma.cols[k].val[d])]]]]

\* ValidCount that counts a missing flag as a false one.
ValidCountAll(above, d) ==
    IF Len(above.cols) = 0 THEN NaN ELSE <<Len(above.cols)>>

\* Lines 36-39: above.notna().sum(axis=1) with 0 replaced by NA
ValidCount(above, d) ==
    LET n == Cardinality({ k \in 1..Len(above.cols) : ~IsNaN(above.cols[k].val[d]) })
    IN IF n = 0 THEN NaN ELSE <<n>>

\* above.sum(axis=1)
TrueCount(above, d) ==
    Cardinality({ k \in 1..Len(above.cols) : above.cols[k].val[d] = <<TRUE>> })

\* Lines 41-42: (above.sum(axis=1) / valid) * 100
BreadthPct(above, d) ==
    IF IsNaN(ValidCount(above, d)) THEN NaN
    ELSE <<100 * TrueCount(above, d), ValidCount(above, d)[1]>>

\* The columns of `out`; a column name written twice in the dict of line 44
\* keeps its later value.
OutColumns(f, s) == {<<"pct_above", f>>, <<"pct_above", s>>,
                     <<"valid_stocks", f>>, <<"valid_stocks", s>>}

OutRow(t, f, s, d) ==
    LET af == Above(t, Rolling(t, f))
        as == Above(t, Rolling(t, s))
    IN [c \in OutColumns(f, s) |->
          IF c = <<"valid_stocks", s>> THEN ValidCount(as, d)
          ELSE IF c = <<"valid_stocks", f>> THEN ValidCount(af, d)
          ELSE IF c = <<"pct_above", s>> THEN BreadthPct(as, d)
          ELSE BreadthPct(af, d)]

RECURSIVE OutRows(_, _, _, _)
OutRows(t, f, s, idx) ==
    IF Len(idx) = 0 THEN <<>>
    ELSE LET row == OutRow(t, f, s, Head(idx))
         IN (IF \E c \in DOMAIN row : IsNaN(row[c]) THEN <<>>
             ELSE <<[date |-> Head(idx), v |-> row]>>)
            \o OutRows(t, f, s, Tail(idx))

\* Lines 30-49: the table `out` after dropna()
BreadthTable(t, f, s) == OutRows(t, f, s, t.index)

DownloadIdle ==
    /\ symbols_csv = {}
    /\ chunk_size = 1
    /\ max_retries = 0
    /\ pause = 0
    /\ layout = "column"
    /\ pc = "idle"
    /\ yf_symbols = <<>>
    /\ i = 0
    /\ attempt = 0
    /\ all_close = <<>>
    /\ close_df = EmptyTable
    /\ trace = <<>>
    /\ got = <<>>
    /\ csv_out = <<>>

InitBreadth ==
    /\ bpc = "loaded"
    /\ full_df \in Matrices
    /\ df = full_df
    /\ fast \in FastWindows
    /\ slow \in SlowWindows
    /\ min_coverage \in Thresholds
    /\ dma_fast = EmptyTable
    /\ dma_slow = EmptyTable
    /\ out = <<>>
    /\ saved = FALSE
    /\ DownloadIdle

\* Lines 27-28
CoverageFilter ==
    /\ bpc = "loaded"
    /\ df' = CoverageFiltered(df, min_coverage)
    /\ bpc' = "filtered"
    /\ UNCHANGED <<full_df, fast, slow, min_coverage, dma_fast, dma_slow, out,
                   saved>>
    /\ UNCHANGED dlVars

\* Lines 30-49
ComputeBreadth ==
    /\ bpc = "filtered"
    /\ dma_fast' = Rolling(df, fast)
    /\ dma_slow' = Rolling(df, slow)
    /\ out' = BreadthTable(df, fast, slow)
    /\ bpc' = "computed"
    /\ UNCHANGED <<df, full_df, fast, slow, min_coverage, saved>>
    /\ UNCHANGED dlVars

\* Lines 51-72: out.to_csv, the chart, the two "Saved:" lines
Report ==
    /\ bpc = "computed"
    /\ saved' = TRUE
    /\ bpc' = "done"
    /\ UNCHANGED <<df, full_df, fast, slow, min_coverage, dma_fast, dma_slow,
                   out>>
    /\ UNCHANGED dlVars

NextBreadth ==
    \/ CoverageFilter
    \/ ComputeBreadth
    \/ Report

SpecBreadth == InitBreadth /\ [][NextBreadth]_vars

----------------------------------------------------------------------------
(* Properties of the retry loop of download_close_prices *)

\* The number of chunks of the symbol list.
NumBatches == (Len(yf_symbols) + chunk_size - 1) \div chunk_size

FetchPos == { k \in 1..Len(trace) : trace[k].ev = "fetch" }

FetchesOf(b) == { k \in FetchPos : trace[k].b = b }

\* An action appends a fetch call together with what followed it, so the
\* entry after a fetch call tells how the call ended.
Raised(k) == trace[k + 1].ev \in {"warn", "error"}

Returned(k) == ~Raised(k)

Finished(b) == b <= Len(got)

LoopOver == pc \in {"assemble", "fatal", "saved"}

\* C1: with max_retries >= 0, every chunk is fetched at least once and at
\* most max_retries + 1 times, no fetch of a chunk follows a fetch of it that
\* returned, a chunk whose max_retries + 1 fetches all raised is logged as
\* failed and the loop goes on to the next chunk, and when the loop is over
\* every chunk has ended in exactly one of Succeeded or Exhausted.
C1_RetryBounds ==
    /\ \A b \in 1..NumBatches :
        /\ Cardinality(FetchesOf(b)) <= max_retries + 1
        /\ \A k \in FetchesOf(b) :
              Returned(k) => \A m \in FetchesOf(b) : m <= k
        /\ Finished(b) =>
              /\ Cardinality(FetchesOf(b)) >= 1
              /\ got[b].b = b
              /\ got[b].ok <=> \E k \in FetchesOf(b) : Returned(k)
              /\ ~got[b].ok =>
                    /\ Cardinality(FetchesOf(b)) = max_retries + 1
                    /\ \A k \in FetchesOf(b) : Raised(k)
                    /\ \E k \in 1..Len(trace) :
                          trace[k].ev = "error" /\ trace[k].b = b
              /\ (b < NumBatches /\ LoopOver) => FetchesOf(b + 1) # {}
              /\ (b < NumBatches) => (Finished(b + 1) \/ pc = "fetch")
    /\ Len(got) <= NumBatches
    /\ LoopOver => Len(got) = NumBatches
    /\ pc = "fetch" => Len(got) = ChunkNo(i, chunk_size) - 1

\* A chunk was exhausted after max_retries + 1 > 1 raising fetches and a later
\* chunk was fetched all the same and succeeded.
C1_Witness ==
    /\ LoopOver
    /\ max_retries >= 1
    /\ \E b \in 1..Len(got) : \E c \in 1..Len(got) :
          b < c /\ ~got[b].ok /\ got[c].ok

SleepPos == { k \in 1..Len(trace) : trace[k].ev = "sleep" }

\* C10: the fetch calls form one sequential trace: chunk b asks for the b-th
\* slice of chunk_size symbols of yf_symbols (only the last slice may be
\* shorter, the slices partition the list); chunk b + 1 is not fetched before
\* chunk b returned or was exhausted; between two consecutive fetch calls
\* exactly one sleep occurs, of pause * (attempt + 2) before a retry of the
\* failed attempt `attempt` (so the backoff sleeps of a chunk grow strictly
\* when pause > 0) and of pause before the first fetch of the next chunk;
\* pause is also slept after the last chunk, and no backoff follows the last
\* failed attempt of an exhausted chunk.
C10_SequentialTrace ==
    LET F == FetchPos
        S == SleepPos
        LastF == { p \in F : \A m \in F : m <= p }
        \* q is the fetch call that follows the fetch call p
        Follows(p, q) == p < q /\ \A m \in F : ~(p < m /\ m < q)
    IN
    /\ \A k \in F :
          LET b == trace[k].b
              lo == (b - 1) * chunk_size
              hi == IF b * chunk_size <= Len(yf_symbols)
                    THEN b * chunk_size ELSE Len(yf_symbols)
          IN /\ b \in 1..NumBatches
             /\ lo < hi
             /\ Len(trace[k].t) = hi - lo
             /\ \A j \in 1..(hi - lo) : trace[k].t[j] = yf_symbols[lo + j]
             /\ (b < NumBatches) => Len(trace[k].t) = chunk_size
    /\ \A p \in F : \A q \in F :
          Follows(p, q) =>
             LET between == { m \in S : p < m /\ m < q }
             IN /\ Cardinality(between) = 1
                /\ \A m \in between :
                      IF trace[q].b = trace[p].b
                      THEN /\ Raised(p)
                           /\ trace[q].a = trace[p].a + 1
                           /\ trace[m].d = pause * (trace[p].a + 2)
                      ELSE /\ trace[q].b = trace[p].b + 1
                           /\ trace[q].a = 0
                           /\ Returned(p) \/ trace[p].a = max_retries
                           /\ trace[m].d = pause
    /\ \A p \in LastF :
          LET after == { m \in S : p < m }
          IN /\ Cardinality(after) = 1
             /\ \A m \in after :
                   IF pc = "fetch" /\ trace[p].b = ChunkNo(i, chunk_size)
                   THEN trace[m].d = pause * (trace[p].a + 2)
                   ELSE trace[m].d = pause
             /\ pc # "fetch" => trace[p].b = NumBatches
    /\ \A m \in S : \A n \in S :
          (/\ m < n
           /\ trace[m - 1].ev = "warn"
           /\ trace[n - 1].ev = "warn"
           /\ trace[m].b = trace[n].b
           /\ pause > 0) => trace[m].d < trace[n].d
    /\ \A k \in F : (\A m \in F : k <= m) => trace[k].b = 1 /\ trace[k].a = 0
    /\ \A k \in 1..Len(trace) :
          (trace[k].ev = "error") =>
             /\ trace[k - 1].ev = "fetch"
             /\ trace[k - 1].a = max_retries
             /\ trace[k + 1].ev = "sleep"
             /\ trace[k + 1].d = pause
    /\ LoopOver => \A b \in 1..NumBatches : FetchesOf(b) # {}

\* A run over three chunks, the last one shorter, with a second retry and an
\* exhausted chunk, under a positive pause.
C10_Witness ==
    /\ LoopOver
    /\ pause > 0
    /\ NumBatches >= 2
    /\ Len(yf_symbols) % chunk_size # 0
    /\ \E k \in FetchPos : trace[k].a = 2
    /\ \E b \in 1..Len(got) : ~got[b].ok

----------------------------------------------------------------------------
(* Properties of the assembled matrix *)

Done == pc \in {"fatal", "saved"}

\* The frame holds a price of the Close field.
Usable(frame) ==
    /\ ~frame.none
    /\ \E k \in 1..Len(frame.cols) :
          /\ "Close" \in SeqRange(frame.cols[k].key)
          /\ \E d \in DOMAIN frame.cols[k].val : ~IsNaN(frame.cols[k].val[d])

NoUsableData == \A k \in 1..Len(got) : ~(got[k].ok /\ Usable(got[k].frame))

\* C2: when no chunk contributes a closing price over the whole run (an
\* empty symbol list, for which no fetch is made, chunks that are exhausted
\* or answered without a Close field or without any price),
\* download_close_prices returns an empty matrix and main stops with the
\* fatal error before writing close.csv; no table is written in such a run.
C2_EmptyIsFatal ==
    /\ (Done /\ NoUsableData) =>
          /\ pc = "fatal"
          /\ IsEmpty(close_df)
          /\ csv_out = <<>>
    /\ (pc # "start" /\ Len(yf_symbols) = 0) => FetchPos = {}
    /\ csv_out # <<>> => ~NoUsableData
    /\ pc = "fatal" => csv_out = <<>>

\* The run ended fatally although close tables were collected: every cell
\* of them was missing.
C2_Witness ==
    /\ pc = "fatal"
    /\ Len(all_close) > 0
    /\ \E k \in 1..Len(got) : ~got[k].ok

StrictlyIncreasing(idx) == \A k \in 1..(Len(idx) - 1) : idx[k] < idx[k + 1]

Distinct(seq) == \A j \in 1..Len(seq) : \A k \in 1..Len(seq) :
                    j # k => seq[j] # seq[k]

\* C3: the matrix download_close_prices returns has pairwise distinct final
\* column labels (the labels after ".NS" has been removed) and a strictly
\* increasing date index, whatever close tables the chunks produced.
C3_DistinctLabelsSortedDates ==
    Done => /\ Distinct(Labels(close_df))
            /\ StrictlyIncreasing(close_df.index)

\* The symbols of chunk b.
BatchSymbols(b) == Chunk(yf_symbols, (b - 1) * chunk_size, chunk_size)

\* The symbols of `chunk` for which `frame` holds a Close price.
WithData(frame, chunk) ==
    { chunk[j] : j \in { j \in 1..Len(chunk) :
        \E k \in 1..Len(frame.cols) :
           /\ "Close" \in SeqRange(frame.cols[k].key)
           /\ (Len(frame.cols[k].key) = 2 => chunk[j] \in SeqRange(frame.cols[k].key))
           /\ \E d \in DOMAIN frame.cols[k].val : ~IsNaN(frame.cols[k].val[d]) } }

\* C4: every close table produced from a response is labelled by symbols of
\* its chunk, among them every symbol that returned data, and every symbol
\* that returned data appears in the assembled matrix under its own label
\* without the ".NS" suffix.
C4_TablesLabelledBySymbol ==
    /\ \A b \in 1..Len(got) :
          (got[b].ok /\ ~IsEmpty(got[b].close)) =>
             /\ SeqRange(Labels(got[b].close)) \subseteq SeqRange(BatchSymbols(b))
             /\ WithData(got[b].frame, BatchSymbols(b))
                   \subseteq SeqRange(Labels(got[b].close))
    /\ Done =>
          \A b \in 1..Len(got) :
             got[b].ok =>
                \A sym \in WithData(got[b].frame, BatchSymbols(b)) :
                   SubSeq(sym, 1, Len(sym) - 3) \in SeqRange(Labels(close_df))

\* The close tables of the run in which every chunk that succeeded did so on
\* its first attempt: one table per answered chunk, empty ones left out.
RECURSIVE AnsweredTables(_)
AnsweredTables(g) ==
    IF Len(g) = 0 THEN <<>>
    ELSE AnsweredTables(SubSeq(g, 1, Len(g) - 1))
         \o (IF g[Len(g)].ok /\ ~IsEmpty(g[Len(g)].close)
             THEN <<g[Len(g)].close>> ELSE <<>>)

WarnsOf(b) == { k \in 1..Len(trace) : trace[k].ev = "warn" /\ trace[k].b = b }

\* C5: the matrix returned depends on the symbol list, the chunk size and the
\* frames the provider answered with, not on the attempt in which a chunk was
\* answered: a chunk answered on a retry contributes what it contributes when
\* answered at once, and the run differs from that one by its [WARN] lines
\* and backoff sleeps only.
C5_RetryKeepsResult ==
    /\ all_close = AnsweredTables(got)
    /\ Done => close_df = Assembled(AnsweredTables(got))
    /\ pc = "saved" => csv_out = <<Assembled(AnsweredTables(got))>>
    /\ \A b \in 1..Len(got) :
          got[b].ok =>
             /\ Cardinality(FetchesOf(b)) = Cardinality(WarnsOf(b)) + 1
             /\ Cardinality({ k \in SleepPos : trace[k].b = b })
                   = Cardinality(WarnsOf(b)) + 1

\* close.csv was written from the data of one chunk only, and that chunk
\* raised on its first attempt and was answered on the retry.
C5_Witness ==
    /\ pc = "saved"
    /\ \E b \in 1..Len(got) :
          /\ got[b].ok
          /\ Usable(got[b].frame)
          /\ WarnsOf(b) # {}
          /\ \A c \in 1..Len(got) : c # b => ~(got[c].ok /\ Usable(got[c].frame))

----------------------------------------------------------------------------
(* Properties of breadth_dma *)

Computed == bpc \in {"computed", "done"}

Filtered == bpc \in {"filtered", "computed", "done"}

Rows(t) == 1..Len(t.index)

\* The w rows ending at row r of column `col` all hold a price.
FullWindow(col, r, w) == r >= w /\ \A k \in (r - w + 1)..r : col.val[k] # NaN

RECURSIVE PriceSum(_, _, _)
PriceSum(col, lo, hi) ==
    IF lo > hi THEN 0 ELSE col.val[hi][1] + PriceSum(col, lo, hi - 1)

\* The columns of matrix t with a defined flag on row r for window w, and
\* those among them whose close exceeds the mean of the window.
Flagged(t, r, w) == { k \in 1..Len(t.cols) : FullWindow(t.cols[k], r, w) }

FlaggedAbove(t, r, w) ==
    { k \in Flagged(t, r, w) :
        t.cols[k].val[r][1] * w > PriceSum(t.cols[k], r - w + 1, r) }

OutDates == { out[k].date : k \in 1..Len(out) }

\* C6: every row of the breadth table has ValidCount > 0 for both windows,
\* ValidCount is the number of symbols with a defined flag, each percentage
\* is 100 * (true flags) / ValidCount and lies in [0, 100]; a date whose
\* ValidCount is zero for either window is not in the table.
C6_BreadthRows ==
    Computed =>
       /\ \A k \in 1..Len(out) : \A w \in {fast, slow} :
             LET r == out[k].date
                 valid == out[k].v[<<"valid_stocks", w>>]
                 pct == out[k].v[<<"pct_above", w>>]
             IN /\ valid # NaN
                /\ valid[1] > 0
                /\ valid[1] = Cardinality(Flagged(df, r, w))
                /\ pct # NaN
                /\ pct[2] = valid[1]
                /\ pct[1] = 100 * Cardinality(FlaggedAbove(df, r, w))
                /\ 0 <= pct[1]
                /\ pct[1] <= 100 * pct[2]
       /\ \A r \in Rows(df) :
             (Flagged(df, r, fast) = {} \/ Flagged(df, r, slow) = {})
                => r \notin OutDates
       /\ OutDates \subseteq Rows(df)

\* A reported date on which one symbol of two has no defined flag for a
\* window and the other is above its average.
C6_Witness ==
    /\ Computed
    /\ \E k \in 1..Len(out) :
          /\ Len(df.cols) = 2
          /\ out[k].v[<<"valid_stocks", slow>>] = <<1>>
          /\ out[k].v[<<"pct_above", slow>>] = <<100, 1>>
          /\ out[k].v[<<"valid_stocks", fast>>] = <<2>>
    /\ Len(out) < Len(df.index)

\* Column k of the full matrix reaches the coverage threshold.
Retained(k) ==
    /\ Len(full_df.index) > 0
    /\ Cardinality({ r \in Rows(full_df) : full_df.cols[k].val[r] # NaN })
          * min_coverage[2] >= min_coverage[1] * Len(full_df.index)

RetainedCols == { k \in 1..Len(full_df.cols) : Retained(k) }

\* C7: the coverage filter keeps exactly the symbols whose share of
\* non-missing rows of the full matrix is >= the threshold, with their cells
\* and every date row, and it runs before the rolling averages: ValidCount
\* counts retained symbols only and never exceeds their number.
C7_CoverageFilter ==
    /\ Filtered =>
          /\ df.index = full_df.index
          /\ Len(df.cols) = Cardinality(RetainedCols)
          /\ \A k \in 1..Len(full_df.cols) :
                Retained(k) <=> \E j \in 1..Len(df.cols) : df.cols[j] = full_df.cols[k]
    /\ Computed =>
          \A k \in 1..Len(out) : \A w \in {fast, slow} :
             /\ out[k].v[<<"valid_stocks", w>>][1] <= Cardinality(RetainedCols)
             /\ out[k].v[<<"valid_stocks", w>>][1]
                   = Cardinality({ j \in RetainedCols :
                                     FullWindow(full_df.cols[j], out[k].date, w) })

\* A symbol whose coverage equals the threshold was kept, another one below
\* it was dropped, and the table reports a date.
C7_Witness ==
    /\ Computed
    /\ Len(out) > 0
    /\ Len(full_df.cols) = 2
    /\ Len(df.cols) = 1
    /\ \E k \in RetainedCols :
          Cardinality({ r \in Rows(full_df) : full_df.cols[k].val[r] # NaN })
             * min_coverage[2] = min_coverage[1] * Len(full_df.index)

\* First and last row of column `col` that hold a price (0 when none does).
FirstObs(col, n) ==
    IF \E r \in 1..n : col.val[r] # NaN
    THEN CHOOSE r \in 1..n : col.val[r] # NaN /\ \A q \in 1..(r - 1) : col.val[q] = NaN
    ELSE 0

LastObs(col, n) ==
    IF \E r \in 1..n : col.val[r] # NaN
    THEN CHOOSE r \in 1..n : col.val[r] # NaN /\ \A q \in (r + 1)..n : col.val[q] = NaN
    ELSE 0

\* C8 as claimed: over the history of a symbol (its rows from the first to
\* the last one holding a price) the w-day average is missing on the first
\* w - 1 rows and defined on every row from the w-th on.
C8_DefinedFromRowW ==
    Computed =>
       \A k \in 1..Len(df.cols) :
          LET n == Len(df.index)
              first == FirstObs(df.cols[k], n)
              last == LastObs(df.cols[k], n)
          IN \A r \in 1..n :
                (first > 0 /\ first <= r /\ r <= last) =>
                   /\ (r - first + 1 < fast) => dma_fast.cols[k].val[r] = NaN
                   /\ (r - first + 1 >= fast) => dma_fast.cols[k].val[r] # NaN
                   /\ (r - first + 1 < slow) => dma_slow.cols[k].val[r] = NaN
                   /\ (r - first + 1 >= slow) => dma_slow.cols[k].val[r] # NaN

\* C8 amended: the w-day average of a column is missing on its first w - 1
\* rows; on a later row it is defined exactly when the w rows ending there
\* all hold a price, so from row w onward on a column without a missing
\* value.
C8_DefinedOnFullWindows ==
    Computed =>
       /\ Len(dma_fast.cols) = Len(df.cols)
       /\ Len(dma_slow.cols) = Len(df.cols)
       /\ \A k \in 1..Len(df.cols) : \A r \in Rows(df) :
             /\ r < fast => dma_fast.cols[k].val[r] = NaN
             /\ r < slow => dma_slow.cols[k].val[r] = NaN
             /\ dma_fast.cols[k].val[r] # NaN <=> FullWindow(df.cols[k], r, fast)
             /\ dma_slow.cols[k].val[r] # NaN <=> FullWindow(df.cols[k], r, slow)
             /\ (\A q \in Rows(df) : df.cols[k].val[q] # NaN) =>
                   /\ r >= fast => dma_fast.cols[k].val[r] # NaN
                   /\ r >= slow => dma_slow.cols[k].val[r] # NaN

\* A retained column with a gap: its 2-day average is missing on row 1,
\* and on row 3 because row 2 holds no price.
C8_Witness ==
    /\ Computed
    /\ fast = 2
    /\ \E k \in 1..Len(df.cols) :
          /\ Len(df.index) >= 3
          /\ df.cols[k].val[1] # NaN
          /\ df.cols[k].val[2] = NaN
          /\ df.cols[k].val[3] # NaN
          /\ dma_fast.cols[k].val[3] = NaN
    /\ \E k \in 1..Len(df.cols) : dma_fast.cols[k].val[2] # NaN

\* No symbol survived the coverage filter, or a window is longer than the
\* matrix has rows.
NoResultCase ==
    \/ Len(df.cols) = 0
    \/ fast > Len(df.index)
    \/ slow > Len(df.index)

\* C9: in that case the run ends without reporting a zero-row breadth table
\* as saved.
C9_NoSilentEmptyResult ==
    (bpc = "done" /\ NoResultCase) => ~(saved /\ Len(out) = 0)

====
